---- MODULE Spec2Model ----
(***************************************************************************)
(* monitor_ssm_request.py: reads a send-command JSON document from stdin,  *)
(* extracts Command.CommandId, then polls list_command_invocations,        *)
(* prints a per-status summary each cycle and exits 0/1 once no invocation *)
(* is InProgress, Cancelling or Received.                                  *)
(*                                                                         *)
(* The process is modelled as one sequential program with a program        *)
(* counter; everything it does that is visible from outside (lines on      *)
(* stdout/stderr, boto3 calls, sleeps, sys.exit) is appended to `trace`.   *)
(* The remote service, stdin and the command line are the environment.     *)
(***************************************************************************)
EXTENDS Integers, Sequences, FiniteSets, TLC

VARIABLES
    pc,             \* position of main(): see the actions below
    stdin,          \* the text sys.stdin.read() returns
    interval,       \* args.interval
    command_id,     \* main's local command_id (None before the parser returned)
    held,           \* environment: what the service held for the command when the
                    \* current cycle fetched (forgotten once the process sleeps)
    request,        \* the arguments of the latest list_command_invocations call
    outcome,        \* environment: how the latest list_command_invocations call ended
    story,          \* history: the fetches so far returned the snapshots of Scenario, in order
    receded,        \* history: the block before the latest one showed Failed records and
                    \* a larger total, and the latest one shows no Failed record
    summary,        \* main's local summary
    printed,        \* the latest block print_summary wrote
    all_completed,  \* main's local all_completed
    trace,          \* externally visible events, oldest first
    exitCode,       \* << >> while running, <<code>> once the process has ended
    sample,         \* harness only: the sequence summarize_status is applied to
    results         \* harness only: what each summarize_status call returned

vars == <<pc, stdin, interval, command_id, held, request, outcome, story, receded, summary,
          printed, all_completed, trace, exitCode, sample, results>>

(***************************************************************************)
(* Bounds of the model.                                                    *)
(***************************************************************************)
\* The service returns at most this many invocations per call (50 by
\* default at AWS), the rest behind a NextToken.
PageSize == 3
\* The service holds at most one record more than a page.
MaxRecords == PageSize + 1
\* Poll cycles explored per run.
MaxFetches == 3
\* Harness: length of the sequences summarize_status is applied to.
MaxLen == 3
\* Harness: number of times summarize_status is called on the same sequence.
MaxCalls == 2

(***************************************************************************)
(* Python values.                                                          *)
(***************************************************************************)
\* Python's None where a string is expected (dict.get on a missing key); it
\* is no status string of the vocabularies below.
None == "<None>"

\* A JSON value as json.loads builds it: its Python type, its scalar text and,
\* for dict and list, its items as <<key, value>> pairs.
JScalar(ty, val) == [ty |-> ty, val |-> val, items |-> {}]
JDict(items) == [ty |-> "dict", val |-> "", items |-> items]
JList(items) == [ty |-> "list", val |-> "", items |-> items]
JNone == JScalar("NoneType", "null")

\* The result of evaluating a Python expression: a value, or a raised exception.
Value(v) == [exc |-> "none", val |-> v]
Raise(e) == [exc |-> e, val |-> JNone]

\* The documents read from stdin.
ValidA == "{\"Command\":{\"CommandId\":\"abc-123\"}}"
ValidB == "{\"Command\":{\"CommandId\":\"def-456\",\"Status\":\"Pending\"}}"
TxtEmpty == ""
TxtGarbage == "not json"
TxtNoCommand == "{}"
TxtNoCommandId == "{\"Command\":{}}"
TxtEmptyId == "{\"Command\":{\"CommandId\":\"\"}}"
TxtNullId == "{\"Command\":{\"CommandId\":null}}"
TxtZeroId == "{\"Command\":{\"CommandId\":0}}"
TxtTopList == "[]"
TxtTopString == "\"abc-123\""
TxtCommandString == "{\"Command\":\"abc-123\"}"
TxtCommandNull == "{\"Command\":null}"
TxtCommandList == "{\"Command\":[\"abc-123\"]}"

InputTexts ==
    {ValidA, ValidB, TxtEmpty, TxtGarbage, TxtNoCommand, TxtNoCommandId, TxtEmptyId,
     TxtNullId, TxtZeroId, TxtTopList, TxtTopString, TxtCommandString,
     TxtCommandNull, TxtCommandList}

\* json.loads on the documents above.
json_loads(text) ==
    CASE text = ValidA ->
            Value(JDict({<<"Command", JDict({<<"CommandId", JScalar("str", "abc-123")>>})>>}))
      [] text = ValidB ->
            Value(JDict({<<"Command", JDict({<<"CommandId", JScalar("str", "def-456")>>,
                                              <<"Status", JScalar("str", "Pending")>>})>>}))
      [] text = TxtNoCommand -> Value(JDict({}))
      [] text = TxtNoCommandId -> Value(JDict({<<"Command", JDict({})>>}))
      [] text = TxtEmptyId ->
            Value(JDict({<<"Command", JDict({<<"CommandId", JScalar("str", "")>>})>>}))
      [] text = TxtNullId ->
            Value(JDict({<<"Command", JDict({<<"CommandId", JNone>>})>>}))
      [] text = TxtZeroId ->
            Value(JDict({<<"Command", JDict({<<"CommandId", JScalar("int", "0")>>})>>}))
      [] text = TxtTopList -> Value(JList({}))
      [] text = TxtTopString -> Value(JScalar("str", "abc-123"))
      [] text = TxtCommandString -> Value(JDict({<<"Command", JScalar("str", "abc-123")>>}))
      [] text = TxtCommandNull -> Value(JDict({<<"Command", JNone>>}))
      [] text = TxtCommandList ->
            Value(JDict({<<"Command", JList({<<"0", JScalar("str", "abc-123")>>})>>}))
      [] OTHER -> Raise("JSONDecodeError")

\* obj[key] with a string key: only a dict can be indexed by a string.
getitem(obj, key) ==
    IF obj.ty # "dict" THEN Raise("TypeError")
    ELSE IF \E p \in obj.items : p[1] = key
         THEN Value((CHOOSE p \in obj.items : p[1] = key)[2])
         ELSE Raise("KeyError")

\* bool(v)
truthy(v) ==
    CASE v.ty \in {"dict", "list"} -> v.items # {}
      [] v.ty = "str" -> v.val # ""
      [] v.ty = "int" -> v.val # "0"
      [] v.ty = "bool" -> v.val = "true"
      [] OTHER -> FALSE

(***************************************************************************)
(* extract_command_id: how the call ends.  "return" with the identifier,   *)
(* "exit" through the except clause (diagnostic, sys.exit(1)), or "raise"  *)
(* with an exception the except clause does not name.                      *)
(***************************************************************************)
extract_except(exc) ==
    IF exc \in {"JSONDecodeError", "KeyError"}
    THEN [how |-> "exit", value |-> None, events |-> <<"stderr:invalid_input", "sys.exit">>]
    ELSE [how |-> "raise", value |-> None, events |-> <<>>]

extract_command_id_nocheck(input_json) ==
    LET data == json_loads(input_json) IN
    IF data.exc # "none" THEN extract_except(data.exc)
    ELSE LET command == getitem(data.val, "Command") IN
         IF command.exc # "none" THEN extract_except(command.exc)
         ELSE LET cid == getitem(command.val, "CommandId") IN
              IF cid.exc # "none" THEN extract_except(cid.exc)
              ELSE [how |-> "return", value |-> cid.val.val, events |-> <<>>]

extract_command_id(input_json) ==
    LET data == json_loads(input_json) IN
    IF data.exc # "none" THEN extract_except(data.exc)
    ELSE LET command == getitem(data.val, "Command") IN
         IF command.exc # "none" THEN extract_except(command.exc)
         ELSE LET cid == getitem(command.val, "CommandId") IN
              IF cid.exc # "none" THEN extract_except(cid.exc)
              ELSE IF ~truthy(cid.val) THEN extract_except("KeyError")
              ELSE [how |-> "return", value |-> cid.val.val, events |-> <<>>]

(***************************************************************************)
(* Invocation records and the status summary.                              *)
(***************************************************************************)
Categories ==
    {"Success", "Failed", "InProgress", "Cancelled", "TimedOut", "Cancelling",
     "Received", "Other"}

\* An invocation record is a dict; only its "Status" key is read.
Inv(status) == [InstanceId |-> "i-0", Status |-> status]
InvNoStatus == [InstanceId |-> "i-0"]

\* invocation.get("Status")
get_status(invocation) ==
    IF "Status" \in DOMAIN invocation THEN invocation.Status ELSE None

ZeroSummary == [c \in Categories |-> 0]

\* The body of the for loop, applied to the summary built so far.
count_one_drop(acc, invocation) ==
    LET status == get_status(invocation) IN
    IF status \in DOMAIN acc THEN [acc EXCEPT ![status] = @ + 1] ELSE acc

count_one_misfile(acc, invocation) ==
    LET status == get_status(invocation) IN
    IF status \in DOMAIN acc
    THEN [acc EXCEPT ![status] = @ + 1]
    ELSE [acc EXCEPT !["Success"] = @ + 1]

count_one(acc, invocation) ==
    LET status == get_status(invocation) IN
    IF status \in DOMAIN acc
    THEN [acc EXCEPT ![status] = @ + 1]
    ELSE [acc EXCEPT !["Other"] = @ + 1]

RECURSIVE count_from(_, _)
count_from(acc, invs) ==
    IF invs = <<>> THEN acc ELSE count_from(count_one(acc, Head(invs)), Tail(invs))

summarize_status_carry(invs) == count_from(summary, invs)

summarize_status(invs) == count_from(ZeroSummary, invs)

RECURSIVE SumOver(_, _)
SumOver(f, S) ==
    IF S = {} THEN 0 ELSE LET c == CHOOSE c \in S : TRUE IN f[c] + SumOver(f, S \ {c})

\* sum(summary.values())
sum_values(s) == SumOver(s, DOMAIN s)

\* The block print_summary writes: the total, then the eight counts by name.
print_summary(s) ==
    [Total |-> sum_values(s), Success |-> s["Success"], Failed |-> s["Failed"],
     InProgress |-> s["InProgress"], Cancelled |-> s["Cancelled"],
     TimedOut |-> s["TimedOut"], Cancelling |-> s["Cancelling"],
     Received |-> s["Received"], Other |-> s["Other"]]

NothingPrinted == print_summary(ZeroSummary)

(***************************************************************************)
(* The remote service and fetch_command_invocations.                       *)
(***************************************************************************)
Min(a, b) == IF a < b THEN a ELSE b

SeqsUpTo(S, n) == UNION {[1..k -> S] : k \in 0..n}

\* Statuses the service reports during a run: the four the loop reads, and
\* Success for the ones it does not.
LoopStatuses == {"Success", "Failed", "InProgress", "Cancelling", "Received"}

\* What the service may hold for the command at a fetch.
Snapshots == SeqsUpTo({Inv(s) : s \in LoopStatuses}, MaxRecords)

\* How one list_command_invocations call ends: a response, a response without
\* the CommandInvocations key, a botocore ClientError (the service rejected
\* the call), or another botocore exception (no endpoint connection).
ServiceOutcomes == {"ok", "ok_nofield", "ClientError", "EndpointConnectionError"}

\* The response to one call without NextToken: the first page of the records,
\* and a NextToken when there are more.
list_command_invocations(records, how) ==
    CASE how = "ok" ->
            [exc |-> "none",
             keys |-> {"CommandInvocations"}
                        \cup (IF Len(records) > PageSize THEN {"NextToken"} ELSE {}),
             CommandInvocations |-> SubSeq(records, 1, Min(Len(records), PageSize))]
      [] how = "ok_nofield" ->
            [exc |-> "none", keys |-> {}, CommandInvocations |-> <<>>]
      [] OTHER ->
            [exc |-> how, keys |-> {}, CommandInvocations |-> <<>>]

\* fetch_command_invocations, given how the service call ended.
fetch_command_invocations_swallow(response) ==
    [how |-> "return",
     value |-> IF "CommandInvocations" \in response.keys
               THEN response.CommandInvocations ELSE <<>>,
     events |-> <<>>]

fetch_command_invocations(response) ==
    IF response.exc = "none"
    THEN [how |-> "return",
          value |-> IF "CommandInvocations" \in response.keys
                    THEN response.CommandInvocations ELSE <<>>,
          events |-> <<>>]
    ELSE IF response.exc = "ClientError"
    THEN [how |-> "exit", value |-> <<>>, events |-> <<"stderr:fetch_error", "sys.exit">>]
    ELSE [how |-> "raise", value |-> <<>>, events |-> <<>>]

(***************************************************************************)
(* main                                                                    *)
(***************************************************************************)
\* --interval: default 15
DefaultInterval == 15
\* The runs: every document with the default interval, one with --interval 1.
Runs == (InputTexts \X {DefaultInterval}) \cup {<<ValidA, 1>>}

NoRequest == [CommandId |-> None, Details |-> FALSE]

RECURSIVE Count(_, _)
Count(seq, e) ==
    IF seq = <<>> THEN 0
    ELSE (IF Head(seq) = e THEN 1 ELSE 0) + Count(Tail(seq), e)

Fetches == Count(trace, "list_command_invocations")

\* An exception nothing catches leaves main: the interpreter writes the
\* traceback to stderr and the process ends with status 1.
Uncaught ==
    /\ trace' = trace \o <<"stderr:traceback">>
    /\ exitCode' = <<1>>
    /\ pc' = "exited"

\* sys.exit(code), after writing `events`.
SysExit(events, code) ==
    /\ trace' = trace \o events
    /\ exitCode' = <<code>>
    /\ pc' = "exited"

Init ==
    /\ pc = "start"
    /\ \E run \in Runs : stdin = run[1] /\ interval = run[2]
    /\ command_id = None
    /\ held = <<>>
    /\ request = NoRequest
    /\ outcome = "none"
    /\ story = TRUE
    /\ receded = FALSE
    /\ sample = <<>>
    /\ summary = ZeroSummary
    /\ printed = NothingPrinted
    /\ all_completed = FALSE
    /\ trace = <<>>
    /\ exitCode = <<>>
    /\ results = <<>>

\* Lines 92-98: read stdin, extract the identifier, print the startup lines.
Parse ==
    /\ pc = "start"
    /\ LET r == extract_command_id(stdin) IN
       CASE r.how = "return" ->
                /\ command_id' = r.value
                /\ trace' = trace \o <<"stdout:startup">>
                /\ pc' = "session"
                /\ UNCHANGED exitCode
         [] r.how = "exit" ->
                /\ SysExit(r.events, 1)
                /\ UNCHANGED command_id
         [] OTHER ->
                /\ Uncaught
                /\ UNCHANGED command_id
    /\ UNCHANGED <<stdin, interval, held, request, summary, printed, all_completed, sample, results,
                   outcome, story, receded>>

\* Lines 101-106: the boto3 session and client; boto3 raises when the profile
\* or the region cannot be resolved.
CreateClient ==
    /\ pc = "session"
    /\ \E ok \in BOOLEAN :
         IF ok
         THEN /\ trace' = trace \o <<"boto3.Session", "session.client">>
              /\ pc' = "loop"
              /\ UNCHANGED exitCode
         ELSE Uncaught
    /\ UNCHANGED <<stdin, interval, command_id, held, request, summary,
                   printed, all_completed, sample, results,
                   outcome, story, receded>>

\* Line 108: the loop test.
LoopTestBounded ==
    /\ pc = "loop"
    /\ IF ~all_completed /\ Fetches < 2
       THEN /\ pc' = "fetch"
            /\ UNCHANGED exitCode
       ELSE /\ pc' = "exited"
            /\ exitCode' = <<0>>
    /\ UNCHANGED <<stdin, interval, command_id, held, request, summary,
                   printed, all_completed, trace, sample, results,
                   outcome, story, receded>>

LoopTest ==
    /\ pc = "loop"
    /\ IF ~all_completed
       THEN /\ pc' = "fetch"
            /\ UNCHANGED exitCode
       ELSE /\ pc' = "exited"
            /\ exitCode' = <<0>>
    /\ UNCHANGED <<stdin, interval, command_id, held, request, summary,
                   printed, all_completed, trace, sample, results,
                   outcome, story, receded>>

\* Lines 47-50: the arguments of the list_command_invocations call.
list_request_nodetails(cid) == [CommandId |-> cid, Details |-> FALSE]

list_request(cid) == [CommandId |-> cid, Details |-> TRUE]

\* The end-to-end scenario: what the first and the second fetch return.
Scenario ==
    << <<Inv("Success"), Inv("Success"), Inv("InProgress")>>,
       <<Inv("Success"), Inv("Success"), Inv("Success")>> >>

\* Lines 109-111: one fetch, the summary of what it returned, the printed block.
Poll ==
    /\ pc = "fetch"
    /\ Fetches < MaxFetches
    /\ request' = list_request(command_id)
    /\ \E records \in Snapshots, how \in ServiceOutcomes :
         /\ how # "ok" => records = <<>>
         /\ held' = records
         /\ outcome' = how
         /\ story' = (/\ story
                      /\ how = "ok"
                      /\ Fetches < Len(Scenario)
                      /\ records = Scenario[Fetches + 1])
         /\ LET r == fetch_command_invocations(list_command_invocations(records, how))
                invocations == r.value
            IN
            CASE r.how = "return" ->
                     /\ summary' = summarize_status(invocations)
                     /\ printed' = print_summary(summary')
                     /\ receded' = (/\ printed.Failed > 0
                                    /\ printed'.Failed = 0
                                    /\ printed'.Total < printed.Total)
                     /\ trace' = trace \o <<"list_command_invocations", "stdout:summary">>
                     /\ pc' = "decide"
                     /\ UNCHANGED exitCode
              [] r.how = "exit" ->
                     /\ SysExit(<<"list_command_invocations">> \o r.events, 1)
                     /\ UNCHANGED <<summary, printed, receded>>
              [] OTHER ->
                     /\ trace' = trace \o <<"list_command_invocations", "stderr:traceback">>
                     /\ exitCode' = <<1>>
                     /\ pc' = "exited"
                     /\ UNCHANGED <<summary, printed, receded>>
    /\ UNCHANGED <<stdin, interval, command_id, all_completed, sample, results>>

\* Line 114: the completion test.
is_complete_nocancelling(s) == s["InProgress"] = 0 /\ s["Received"] = 0

is_complete_noinprogress(s) == s["Cancelling"] = 0 /\ s["Received"] = 0

is_complete_nonempty(s) ==
    /\ s["InProgress"] = 0 /\ s["Cancelling"] = 0 /\ s["Received"] = 0
    /\ sum_values(s) > 0

is_complete_orfailed(s) ==
    \/ s["InProgress"] = 0 /\ s["Cancelling"] = 0 /\ s["Received"] = 0
    \/ s["Failed"] > 0

is_complete(s) == s["InProgress"] = 0 /\ s["Cancelling"] = 0 /\ s["Received"] = 0

\* Lines 116-121: the exit code of a completed run.
final_code_zero(s) == 0

final_code(s) == IF s["Failed"] > 0 THEN 1 ELSE 0

\* Lines 114-123: complete, or to the sleep.
Decide ==
    /\ pc = "decide"
    /\ IF is_complete(summary)
       THEN /\ all_completed' = TRUE
            /\ SysExit(<<IF final_code(summary) = 1 THEN "stdout:failed"
                         ELSE "stdout:succeeded", "sys.exit">>, final_code(summary))
       ELSE /\ pc' = "sleep"
            /\ UNCHANGED <<all_completed, trace, exitCode>>
    /\ UNCHANGED <<stdin, interval, command_id, held, request, summary,
                   printed, sample, results,
                   outcome, story, receded>>

\* Line 123: time.sleep(args.interval); meanwhile the service moves on.
Sleep ==
    /\ pc = "sleep"
    /\ trace' = trace \o <<"time.sleep">>
    /\ held' = <<>>
    /\ pc' = "loop"
    /\ UNCHANGED <<stdin, interval, command_id, request, summary,
                   printed, all_completed, exitCode, sample, results,
                   outcome, story, receded>>

(***************************************************************************)
(* summarize_status and print_summary on their own: called MaxCalls times  *)
(* on one sequence of records, over the whole status vocabulary.           *)
(***************************************************************************)
\* The eight category names, a status the tool does not know, no status.
SampleRecords == {Inv(s) : s \in Categories \cup {"Pending"}} \cup {InvNoStatus}

InitSum ==
    /\ pc = "call"
    /\ sample \in SeqsUpTo(SampleRecords, MaxLen)
    /\ stdin = ValidA
    /\ interval = DefaultInterval
    /\ command_id = None
    /\ held = <<>>
    /\ request = NoRequest
    /\ outcome = "none"
    /\ story = TRUE
    /\ receded = FALSE
    /\ summary = ZeroSummary
    /\ printed = NothingPrinted
    /\ all_completed = FALSE
    /\ trace = <<>>
    /\ exitCode = <<>>
    /\ results = <<>>

\* summary = summarize_status(invocations)
CallSummarize ==
    /\ pc = "call"
    /\ Len(results) < MaxCalls
    /\ summary' = summarize_status(sample)
    /\ results' = Append(results, summary')
    /\ pc' = "print"
    /\ UNCHANGED <<stdin, interval, command_id, held, request, outcome, story, receded,
                   printed, all_completed, trace, exitCode, sample>>

\* print_summary(summary)
CallPrint ==
    /\ pc = "print"
    /\ printed' = print_summary(summary)
    /\ trace' = trace \o <<"stdout:summary">>
    /\ pc' = "call"
    /\ UNCHANGED <<stdin, interval, command_id, held, request, outcome, story, receded,
                   summary, all_completed, exitCode, sample, results>>

NextSum ==
    \/ CallSummarize
    \/ CallPrint

SpecSum == InitSum /\ [][NextSum]_vars

Next ==
    \/ Parse
    \/ CreateClient
    \/ LoopTest
    \/ Poll
    \/ Decide
    \/ Sleep

Spec == Init /\ [][Next]_vars

(***************************************************************************)
(* Properties.                                                             *)
(***************************************************************************)
FETCH == "list_command_invocations"
SUMMARY == "stdout:summary"
SLEEP == "time.sleep"

Last(seq) == seq[Len(seq)]
EndsWith(seq, tail) ==
    /\ Len(seq) >= Len(tail)
    /\ SubSeq(seq, Len(seq) - Len(tail) + 1, Len(seq)) = tail

\* The printed block shows no invocation in flight.
NoneInFlight(block) ==
    block.InProgress = 0 /\ block.Cancelling = 0 /\ block.Received = 0

\* The document on stdin has a non-empty Command.CommandId.
HasCommandId(text) == text \in {ValidA, ValidB}

FetchFailed == outcome \in {"ClientError", "EndpointConnectionError"}
FetchSucceeded == outcome \in {"ok", "ok_nofield"}

\* The boto3 calls made so far.
NetworkCalls ==
    Count(trace, "boto3.Session") + Count(trace, "session.client") + Count(trace, FETCH)

\* C1: a cycle whose summary shows nothing InProgress, Cancelling or Received
\* ends the run in that cycle, with code 0 when Failed = 0 and code 1 when
\* Failed > 0; and the process ends with code 0 only after a successful fetch
\* whose summary has InProgress, Cancelling, Received and Failed all zero.
C1_CompleteCycleExits ==
    /\ [][(pc = "decide" /\ NoneInFlight(printed)) =>
            /\ pc' = "exited"
            /\ exitCode' = <<IF printed.Failed = 0 THEN 0 ELSE 1>>
            /\ Fetches' = Fetches
            /\ Count(trace', SLEEP) = Count(trace, SLEEP)]_vars
    /\ [](exitCode = <<0>> =>
            /\ FetchSucceeded
            /\ NoneInFlight(printed)
            /\ printed.Failed = 0
            /\ printed = print_summary(summarize_status(
                            SubSeq(held, 1, Min(Len(held), PageSize)))))

C1_Witness ==
    /\ pc = "exited"
    /\ exitCode = <<1>>
    /\ NoneInFlight(printed)
    /\ printed.Failed = 2
    /\ printed.Success = 1
    /\ EndsWith(trace, <<SUMMARY, "stdout:failed", "sys.exit">>)

C3_SummaryCountsEveryRecord ==
    results # <<>> =>
        /\ DOMAIN summary = {"Success", "Failed", "InProgress", "Cancelled", "TimedOut",
                             "Cancelling", "Received", "Other"}
        /\ \A c \in DOMAIN summary : summary[c] \in Nat
        /\ summary["Success"] + summary["Failed"] + summary["InProgress"]
             + summary["Cancelled"] + summary["TimedOut"] + summary["Cancelling"]
             + summary["Received"] + summary["Other"] = Len(sample)
        /\ pc = "call" => printed.Total = Len(sample)

C3_Witness ==
    /\ pc = "call"
    /\ results # <<>>
    /\ Len(sample) = MaxLen
    /\ \E i \in DOMAIN sample : "Status" \notin DOMAIN sample[i]
    /\ \E i \in DOMAIN sample : sample[i] = Inv("Pending")
    /\ printed.Total = MaxLen

\* The record carries exactly this status string.
HasStatus(invocation, name) ==
    "Status" \in DOMAIN invocation /\ invocation.Status = name

NamedCategories ==
    {"Success", "Failed", "InProgress", "Cancelled", "TimedOut", "Cancelling", "Received"}

\* C4: each of the seven named counts is the number of records with exactly
\* that status, Other is the number of all other records (unknown status, no
\* status, the status "Other"), and no category is added.
C4_EachCategoryCountsItsStatus ==
    results # <<>> =>
        /\ \A c \in NamedCategories :
             summary[c] = Cardinality({i \in DOMAIN sample : HasStatus(sample[i], c)})
        /\ summary["Other"] =
             Cardinality({i \in DOMAIN sample :
                            \A c \in NamedCategories : ~HasStatus(sample[i], c)})
        /\ DOMAIN summary = NamedCategories \cup {"Other"}

C4_Witness ==
    /\ results # <<>>
    /\ sample = <<Inv("Pending"), InvNoStatus, Inv("Other")>>
    /\ summary["Other"] = 3

\* C5: for every document without a non-empty Command.CommandId the parser
\* writes the one-line invalid-input diagnostic to stderr and the process
\* ends with code 1.
C5_MalformedInputDiagnosed ==
    (pc # "start" /\ ~HasCommandId(stdin)) =>
        /\ trace = <<"stderr:invalid_input", "sys.exit">>
        /\ exitCode = <<1>>

\* C6: no boto3 call (session, client, fetch) happens before the parser has
\* returned an identifier; a run whose document has no non-empty
\* Command.CommandId makes none at all.
C6_NoNetworkBeforeParser ==
    /\ (NetworkCalls > 0 \/ request # NoRequest) =>
         (command_id # None /\ command_id # "" /\ HasCommandId(stdin))
    /\ ~HasCommandId(stdin) => (NetworkCalls = 0 /\ request = NoRequest)

C6_Witness ==
    /\ pc = "exited"
    /\ stdin = TxtEmptyId
    /\ exitCode = <<1>>
    /\ NetworkCalls = 0

\* C7: a fetch that errors, in whichever cycle, ends the run at once with
\* code 1 and the error on stderr: nothing follows the failed call but the
\* error output and the exit (no summary, no sleep, no other fetch).
C7_FetchErrorIsFatal ==
    /\ [](FetchFailed =>
            /\ pc = "exited"
            /\ exitCode = <<1>>
            /\ \/ EndsWith(trace, <<FETCH, "stderr:fetch_error", "sys.exit">>)
               \/ EndsWith(trace, <<FETCH, "stderr:traceback">>)
            /\ Count(trace, SUMMARY) = Fetches - 1
            /\ Count(trace, SLEEP) = Fetches - 1)
    /\ [][pc = "exited" => FALSE]_vars

C7_Witness ==
    /\ outcome = "ClientError"
    /\ Fetches = 2
    /\ pc = "exited"
    /\ exitCode = <<1>>

\* C8: a successful fetch returns every invocation the service holds for the
\* command: the printed total is the number the service holds, and the run is
\* not declared complete while a held invocation is InProgress, Cancelling or
\* Received.
C8_FetchReturnsAllRecords ==
    (outcome = "ok" /\ pc \in {"decide", "exited"}) =>
        /\ printed.Total = Len(held)
        /\ all_completed =>
             \A i \in DOMAIN held :
                held[i].Status \notin {"InProgress", "Cancelling", "Received"}

ScenarioFirstBlock ==
    [Total |-> 3, Success |-> 2, Failed |-> 0, InProgress |-> 1, Cancelled |-> 0,
     TimedOut |-> 0, Cancelling |-> 0, Received |-> 0, Other |-> 0]

ScenarioSecondBlock ==
    [Total |-> 3, Success |-> 3, Failed |-> 0, InProgress |-> 0, Cancelled |-> 0,
     TimedOut |-> 0, Cancelling |-> 0, Received |-> 0, Other |-> 0]

ScenarioTrace ==
    <<"stdout:startup", "boto3.Session", "session.client",
      FETCH, SUMMARY, SLEEP, FETCH, SUMMARY, "stdout:succeeded", "sys.exit">>

\* C9: every successful fetch is followed at once by exactly one summary
\* block, which comes before the final notice or the sleep, so the number of
\* blocks is the number of successful fetches; and the run whose fetches
\* return [Success, Success, InProgress] then [Success, Success, Success]
\* prints 3/2/1, goes on, prints 3/3, prints the success notice and ends with
\* code 0 after two fetches.
C9_SummaryOncePerFetch ==
    /\ \A i \in DOMAIN trace :
         /\ trace[i] = SUMMARY =>
              /\ i > 1 /\ trace[i - 1] = FETCH
              /\ i < Len(trace) =>
                   trace[i + 1] \in {SLEEP, "stdout:succeeded", "stdout:failed"}
         /\ trace[i] = FETCH =>
              \/ trace[i + 1] = SUMMARY
              \/ FetchFailed /\ Count(SubSeq(trace, 1, i), FETCH) = Fetches
    /\ Count(trace, SUMMARY) = Fetches - (IF FetchFailed THEN 1 ELSE 0)
    /\ (story /\ Fetches = 1) =>
         (printed = ScenarioFirstBlock /\ pc \in {"decide", "sleep", "loop", "fetch"}
            /\ exitCode = <<>>)
    /\ (story /\ Fetches = 2) =>
         /\ printed = ScenarioSecondBlock
         /\ pc \in {"decide", "exited"}
         /\ pc = "exited" => (exitCode = <<0>> /\ trace = ScenarioTrace)

C9_Witness ==
    /\ story
    /\ stdin = ValidA
    /\ Fetches = 2
    /\ pc = "exited"
    /\ exitCode = <<0>>

\* The rearrangements of a sequence.
Rearrangements(seq) ==
    {[i \in DOMAIN seq |-> seq[f[i]]] : f \in Permutations(DOMAIN seq)}

\* C10: summarize_status returns the same summary each time it is called on
\* the same sequence, leaves the sequence as it was, and returns that summary
\* for every rearrangement of the sequence.
C10_SummarizerIsPure ==
    /\ [][sample' = sample]_vars
    /\ [](\A i, j \in DOMAIN results : results[i] = results[j])
    /\ [](results # <<>> =>
            \A p \in Rearrangements(sample) : summarize_status(p) = results[1])

C10_Witness ==
    /\ Len(results) = 2
    /\ sample = <<Inv("Failed"), Inv("Success"), Inv("Pending")>>
    /\ results[2]["Failed"] = 1

LatestPage == SubSeq(held, 1, Min(Len(held), PageSize))

\* The records of a sequence that carry this status.
Tally(invs, name) == Cardinality({i \in DOMAIN invs : HasStatus(invs[i], name)})

\* C13: each cycle's summary is rebuilt from zero out of the records that
\* cycle fetched: after a successful fetch every count is the tally of the
\* latest page alone and the printed total is its length, whatever earlier
\* cycles showed.  The completion decision and the exit code depend on the
\* latest page alone: a Failed record of an earlier cycle that the final one
\* no longer shows does not give code 1, and the printed total can go down.
C13_SummaryFromLatestSnapshotOnly ==
    /\ (FetchSucceeded /\ pc \in {"decide", "exited"}) =>
         /\ \A c \in NamedCategories : summary[c] = Tally(LatestPage, c)
         /\ summary["Other"] =
              Cardinality({i \in DOMAIN LatestPage :
                             \A c \in NamedCategories : ~HasStatus(LatestPage[i], c)})
         /\ printed = print_summary(summary)
         /\ printed.Total = Len(LatestPage)
         /\ all_completed <=>
              (pc = "exited" /\ \A c \in {"InProgress", "Cancelling", "Received"} :
                                   Tally(LatestPage, c) = 0)
         /\ pc = "exited" =>
              exitCode = <<IF Tally(LatestPage, "Failed") > 0 THEN 1 ELSE 0>>
    /\ (receded /\ FetchSucceeded /\ pc = "exited") => exitCode = <<0>>

C13_Witness ==
    /\ receded
    /\ Fetches = 2
    /\ pc = "exited"
    /\ exitCode = <<0>>
    /\ printed.Total = 1
    /\ printed.Success = 1

\* The identifier written in the document on stdin.
DocumentId(text) ==
    CASE text = ValidA -> "abc-123"
      [] text = ValidB -> "def-456"
      [] OTHER -> None

\* C14: no step changes the polling interval, and no step after the parser
\* changes the command identifier: from the parser's return on it is the
\* identifier of the document.  Every fetch is issued with that identifier
\* and with detailed data requested.
C14_IdentifierAndIntervalFixed ==
    /\ [][interval' = interval]_vars
    /\ [][pc # "start" => command_id' = command_id]_vars
    /\ []((pc # "start" /\ HasCommandId(stdin)) => command_id = DocumentId(stdin))
    /\ [](Fetches > 0 =>
            /\ request = [CommandId |-> DocumentId(stdin), Details |-> TRUE]
            /\ request.CommandId = command_id)
    /\ [](Fetches = 0 => request = NoRequest)

C14_Witness ==
    /\ stdin = ValidB
    /\ Fetches = MaxFetches
    /\ Count(trace, SLEEP) = MaxFetches - 1
    /\ command_id = "def-456"
    /\ request = [CommandId |-> "def-456", Details |-> TRUE]
    /\ interval = DefaultInterval

\* The latest fetch succeeded and returned no record: an empty list, or a
\* response without the CommandInvocations field.
FetchedNothing ==
    /\ pc \in {"decide", "exited"}
    /\ \/ outcome = "ok_nofield"
       \/ outcome = "ok" /\ held = <<>>

\* C15: a successful fetch that returns zero records completes the run in
\* that cycle, the first one included: the block printed has total 0 and all
\* counts 0, the only step left is the success notice with exit code 0, and
\* the process neither sleeps nor fetches again.
C15_EmptySnapshotCompletes ==
    /\ FetchedNothing => printed = print_summary(ZeroSummary)
    /\ (FetchSucceeded /\ printed.Total = 0) =>
         /\ FetchedNothing
         /\ pc = "decide" =>
              /\ EndsWith(trace, <<FETCH, SUMMARY>>)
              /\ ENABLED Next
              /\ ~ENABLED (Next /\ ~(/\ pc' = "exited"
                                     /\ exitCode' = <<0>>
                                     /\ trace' = trace \o <<"stdout:succeeded", "sys.exit">>))
         /\ pc = "exited" =>
              /\ exitCode = <<0>>
              /\ EndsWith(trace, <<FETCH, SUMMARY, "stdout:succeeded", "sys.exit">>)
              /\ Count(trace, SLEEP) = Fetches - 1

C15_Witness ==
    /\ outcome = "ok_nofield"
    /\ Fetches = 1
    /\ Count(trace, SLEEP) = 0
    /\ pc = "exited"
    /\ exitCode = <<0>>
    /\ printed.Total = 0

\* The final notices printed so far.
FinalNotices == Count(trace, "stdout:succeeded") + Count(trace, "stdout:failed")

\* C16: the loop never ends through its own condition.  A run that has ended
\* left main through sys.exit with code 0 or 1, called by the parser on
\* invalid input, by the fetcher on a fetch error, or by the completion
\* branch; a run that completed printed exactly one final notice, and any
\* other run none; and the loop test never sees all_completed true.
C16_ExplicitExitOnly ==
    /\ pc = "exited" =>
         /\ exitCode \in {<<0>>, <<1>>}
         /\ Last(trace) = "sys.exit"
         /\ \/ trace = <<"stderr:invalid_input", "sys.exit">> /\ exitCode = <<1>>
            \/ EndsWith(trace, <<FETCH, "stderr:fetch_error", "sys.exit">>) /\ exitCode = <<1>>
            \/ EndsWith(trace, <<SUMMARY, "stdout:succeeded", "sys.exit">>) /\ exitCode = <<0>>
            \/ EndsWith(trace, <<SUMMARY, "stdout:failed", "sys.exit">>) /\ exitCode = <<1>>
    /\ FinalNotices = (IF all_completed THEN 1 ELSE 0)
    /\ all_completed => pc = "exited"
    /\ pc = "loop" => ~all_completed

\* What of C16 does hold: the loop test never sees all_completed true, the
\* flag is set only by a step that exits, and a completed run has printed one
\* final notice, as its last output before sys.exit.
C16_LoopNeverEndsByItsCondition ==
    /\ pc = "loop" => ~all_completed
    /\ all_completed => (pc = "exited" /\ Last(trace) = "sys.exit")
    /\ FinalNotices = (IF all_completed THEN 1 ELSE 0)
    /\ pc = "exited" => exitCode \in {<<0>>, <<1>>}

====
